---- MODULE Spec2Model ----
(***************************************************************************)
(* compilebench: the measurement-and-parsing pipeline of src/main.go (the  *)
(* current generation) and of the older generation kept beside it          *)
(* (src/unnamed/part_000).                                                 *)
(*                                                                         *)
(* Text is modelled as a sequence of one-character strings, so that        *)
(* strings.Split, strings.Fields, strings.HasPrefix, strings.Contains,     *)
(* strconv.ParseInt and the %d verb are computed, not assumed.             *)
(***************************************************************************)
EXTENDS Integers, Sequences, FiniteSets, TLC

(***************************************************************************)
(* Bounds of the model.                                                    *)
(***************************************************************************)
\* largest -count value explored
MaxCount == 2
\* largest number of external failures (a process exiting non-zero, a file
\* that cannot be read or written, ...) injected into one run
MaxFaults == 2
\* largest number of *.go.gz files found in the torture testdata directory
MaxTorture == 1
\* largest number of lines of a memory profile in the extractor's own
\* specification
MaxProfLines == 3
\* wall-clock and user CPU time, in ns, measured for a process
WallNs == 1234
UserNs == 56
\* size in bytes reported by os.Stat for the built executable
ExeBytes == 4096

(***************************************************************************)
(* Text helpers: the library functions the program calls.                  *)
(***************************************************************************)
Space == {" ", "\t", "\n", "\r"}

RECURSIVE SplitAcc(_, _, _)
SplitAcc(s, cur, acc) ==
    IF s = <<>> THEN Append(acc, cur)
    ELSE IF Head(s) = "\n" THEN SplitAcc(Tail(s), <<>>, Append(acc, cur))
    ELSE SplitAcc(Tail(s), Append(cur, Head(s)), acc)

\* strings.Split(s, "\n"): always at least one element; a trailing newline
\* yields a final empty element.
Split(s) == SplitAcc(s, <<>>, <<>>)

RECURSIVE FieldsAcc(_, _, _)
FieldsAcc(s, cur, acc) ==
    IF s = <<>> THEN (IF cur = <<>> THEN acc ELSE Append(acc, cur))
    ELSE IF Head(s) \in Space
         THEN FieldsAcc(Tail(s), <<>>, IF cur = <<>> THEN acc ELSE Append(acc, cur))
    ELSE FieldsAcc(Tail(s), Append(cur, Head(s)), acc)

\* strings.Fields(s): the maximal runs of non-space characters.
Fields(s) == FieldsAcc(s, <<>>, <<>>)

\* strings.HasPrefix(s, p)
HasPrefix(s, p) == Len(s) >= Len(p) /\ SubSeq(s, 1, Len(p)) = p

\* strings.Contains(s, p)
Contains(s, p) == \E j \in 1..(Len(s) - Len(p) + 1) : SubSeq(s, j, j + Len(p) - 1) = p

DigitVal(c) ==
    CASE c = "0" -> 0 [] c = "1" -> 1 [] c = "2" -> 2 [] c = "3" -> 3
      [] c = "4" -> 4 [] c = "5" -> 5 [] c = "6" -> 6 [] c = "7" -> 7
      [] c = "8" -> 8 [] c = "9" -> 9
      [] c \in {"a", "A"} -> 10 [] c \in {"b", "B"} -> 11 [] c \in {"c", "C"} -> 12
      [] c \in {"d", "D"} -> 13 [] c \in {"e", "E"} -> 14 [] c \in {"f", "F"} -> 15
      [] OTHER -> 99

\* the digits of s in the given base, or -1 on a character that is no digit
\* of that base
RECURSIVE ParseDigits(_, _, _)
ParseDigits(s, base, acc) ==
    IF s = <<>> THEN acc
    ELSE IF DigitVal(Head(s)) >= base THEN -1
    ELSE ParseDigits(Tail(s), base, acc * base + DigitVal(Head(s)))

\* strconv.ParseInt(s, 0, 64): optional sign, then 0x/0X hexadecimal, a
\* leading 0 octal, decimal otherwise.  ok = FALSE is the returned error.
\* The 64-bit range error is outside the values explored (all below 2^31).
ParseInt(s) ==
    LET signed == s # <<>> /\ Head(s) \in {"+", "-"}
        neg == s # <<>> /\ Head(s) = "-"
        u == IF signed THEN Tail(s) ELSE s
        hex == Len(u) > 1 /\ u[1] = "0" /\ u[2] \in {"x", "X"}
        oct == ~hex /\ Len(u) >= 1 /\ u[1] = "0"
        base == IF hex THEN 16 ELSE IF oct THEN 8 ELSE 10
        digits == IF hex THEN SubSeq(u, 3, Len(u))
                  ELSE IF oct THEN Tail(u) ELSE u
        n == ParseDigits(digits, base, 0)
    IN  IF u = <<>> \/ (hex /\ Len(u) < 3) \/ n < 0
        THEN [ok |-> FALSE, val |-> 0]
        ELSE [ok |-> TRUE, val |-> IF neg THEN -n ELSE n]

DigitChar(d) == <<"0", "1", "2", "3", "4", "5", "6", "7", "8", "9">>[d + 1]

RECURSIVE FormatNat(_)
FormatNat(n) == IF n < 10 THEN <<DigitChar(n)>>
                ELSE Append(FormatNat(n \div 10), DigitChar(n % 10))

\* the %d verb of fmt for an integer
FormatInt(n) == IF n < 0 THEN <<"-">> \o FormatNat(-n) ELSE FormatNat(n)

(***************************************************************************)
(* Literals of the source.                                                 *)
(***************************************************************************)
TEXT_PREFIX == <<"_", "_", "T", "E", "X", "T">>
BSS == <<"b", "s", "s">>
HASH == <<"#">>
EQUALS == <<"=">>
TotalAlloc == <<"T", "o", "t", "a", "l", "A", "l", "l", "o", "c">>
Mallocs == <<"M", "a", "l", "l", "o", "c", "s">>

(***************************************************************************)
(* The benchmark tables and the command lines explored.                    *)
(***************************************************************************)
\* var tests of src/main.go
tests == <<
    [name |-> "BenchmarkTemplate", dir |-> "html/template", long |-> FALSE],
    [name |-> "BenchmarkUnicode", dir |-> "unicode", long |-> FALSE],
    [name |-> "BenchmarkGoTypes", dir |-> "go/types", long |-> FALSE],
    [name |-> "BenchmarkCompiler", dir |-> "cmd/compile/internal/gc", long |-> FALSE],
    [name |-> "BenchmarkStdCmd", dir |-> "", long |-> TRUE],
    [name |-> "BenchmarkHelloSize", dir |-> "", long |-> FALSE],
    [name |-> "BenchmarkCmdGoSize", dir |-> "", long |-> TRUE] >>

\* var tests of the older generation (it has no long field)
testsOld == <<
    [name |-> "BenchmarkTemplate", dir |-> "html/template"],
    [name |-> "BenchmarkGoTypes", dir |-> "go/types"],
    [name |-> "BenchmarkCompiler", dir |-> "cmd/compile/internal/gc"] >>

\* the directory the torture files are staged from, and the benchmark name
\* derived from the t-th file found there ("Benchmark" + strings.Title(name))
testdata == "testdata"
TortureName(t) == <<"BenchmarkTorture1", "BenchmarkTorture2", "BenchmarkTorture3">>[t]

\* the flag defaults (var block of flag definitions)
DefaultFlags == [alloc |-> FALSE, run |-> "", count |-> 1, cpuprofile |-> "",
                 memprofile |-> "", short |-> FALSE, torture |-> FALSE]

\* the command lines explored for src/main.go
CommandLines ==
    { DefaultFlags,
      [DefaultFlags EXCEPT !.run = "Size", !.count = MaxCount],
      [DefaultFlags EXCEPT !.run = "Go", !.short = TRUE, !.alloc = TRUE],
      [DefaultFlags EXCEPT !.run = "Nothing", !.count = MaxCount, !.torture = TRUE],
      [DefaultFlags EXCEPT !.run = "("],
      [DefaultFlags EXCEPT !.alloc = TRUE, !.short = TRUE],
      [DefaultFlags EXCEPT !.alloc = TRUE, !.memprofile = "mem.prof",
                           !.cpuprofile = "cpu.prof", !.short = TRUE],
      [DefaultFlags EXCEPT !.memprofile = "mem.prof", !.run = "Template|Torture",
                           !.torture = TRUE, !.count = MaxCount],
      [DefaultFlags EXCEPT !.torture = TRUE, !.short = TRUE] }

\* the command lines explored for the older generation, which has no
\* -alloc, -short and -torture flags
CommandLinesOld ==
    { DefaultFlags,
      [DefaultFlags EXCEPT !.count = MaxCount],
      [DefaultFlags EXCEPT !.run = "Go", !.count = MaxCount],
      [DefaultFlags EXCEPT !.run = "Nothing"],
      [DefaultFlags EXCEPT !.run = "("],
      [DefaultFlags EXCEPT !.memprofile = "mem.prof", !.cpuprofile = "cpu.prof"] }

\* regexp.Compile: "(" is the one pattern explored that does not compile
Compiles(pattern) == pattern # "("

\* runRE.MatchString(name) for the patterns explored
MatchString(pattern, name) ==
    CASE pattern = "Size" -> name \in {"BenchmarkHelloSize", "BenchmarkCmdGoSize"}
      [] pattern = "Go" -> name \in {"BenchmarkGoTypes", "BenchmarkCmdGoSize"}
      [] pattern = "Template|Torture" ->
             name \in {"BenchmarkTemplate", "BenchmarkTorture1", "BenchmarkTorture2",
                       "BenchmarkTorture3"}
      [] OTHER -> FALSE

(***************************************************************************)
(* Inputs from outside: what the external tools print or write.            *)
(***************************************************************************)
\* a memory profile as the compiler writes it: counters, then other lines
GoodProfile == <<"h", "e", "a", "p", " ", "p", "r", "o", "f", "i", "l", "e", ":", " ", "1", ":", " ", "2", "\n", "#", " ", "T", "o", "t", "a", "l", "A", "l", "l", "o", "c", " ", "=", " ", "8", "1", "9", "2", "\n", "#", " ", "M", "a", "l", "l", "o", "c", "s", " ", "=", " ", "3", "7", "\n", "#", " ", "F", "r", "e", "e", "s", " ", "=", " ", "5", "\n">>
\* profiles that lack a counter, or carry a value that is no integer
NoMallocsProfile == <<"#", " ", "T", "o", "t", "a", "l", "A", "l", "l", "o", "c", " ", "=", " ", "8", "1", "9", "2", "\n">>
CorruptProfile == <<"#", " ", "T", "o", "t", "a", "l", "A", "l", "l", "o", "c", " ", "=", " ", "8", "k", "\n", "#", " ", "M", "a", "l", "l", "o", "c", "s", " ", "=", " ", "3", "7", "\n">>
\* the profile file does not exist after the compilation
NoFile == <<"<no file>">>
ProfileInputs == {GoodProfile, NoMallocsProfile, CorruptProfile, NoFile}

\* what size(1) prints, by platform
SizeDarwin == <<"_", "_", "T", "E", "X", "T", "\t", "_", "_", "D", "A", "T", "A", "\t", "d", "e", "c", "\n", "1", "1", "0", "5", "9", "2", "0", "\t", "9", "4", "2", "0", "8", "\t", "1", "2", "0", "0", "1", "2", "8", "\n">>
SizeLinux == <<"t", "e", "x", "t", "\t", "d", "a", "t", "a", "\t", "b", "s", "s", "\t", "d", "e", "c", "\n", "9", "0", "1", "1", "2", "0", " ", "1", "8", "7", "2", "0", " ", "1", "3", "1", "0", "7", "2", " ", "1", "0", "5", "0", "9", "1", "2", "\n">>
SizeUnknown == <<"s", "e", "c", "t", "i", "o", "n", " ", "s", "i", "z", "e", "\n", ".", "t", "e", "x", "t", " ", "9", "0", "1", "1", "2", "0", "\n">>
SizeNoNumbers == <<"_", "_", "T", "E", "X", "T", "\t", "_", "_", "D", "A", "T", "A", "\n", "_", "o", "u", "t", "_", " ", ":", "\n">>
SizeShort == <<"s", "i", "z", "e">>
SizeNominal(goos) == IF goos = "darwin" THEN SizeDarwin ELSE SizeLinux
SizeInputs(goos) == {SizeNominal(goos), SizeUnknown, SizeNoNumbers, SizeShort}

\* the side artifacts, by the names the source gives them
OBJ == "_compilebench_.o"
MEMPROF == "_compilebench_.memprof"
CPUPROF == "_compilebench_.cpuprof"
SIZEOUT == "_compilebenchout_"

VARIABLES
    gen,      \* "main": src/main.go; "old": the older generation; "profile",
              \* "size": the extractor and the size parser on their own
    goos,     \* the platform, which decides what size(1) prints
    flags,    \* the flag values (runBuild resets some under is6g)
    is6g,     \* var is6g
    runRE,    \* var runRE: "nil", or the compiled pattern
    pc,       \* where main is: "start", "loop", "torture", "files", "done", "fatal"
    i,        \* the pass, the i of main's outer loop
    k,        \* the index into tests (1-based), or into the torture files
    nfiles,   \* the number of torture files found by filepath.Glob
    stdout,   \* the lines written to standard output, one element per Printf
    logs,     \* the messages written with package log (standard error)
    fs,       \* the side artifacts that exist, as <<directory, file>>
    hist,     \* one entry per benchmark definition visited: what was done
    faults,   \* the number of external failures so far
    input,    \* the text last read from an external tool or file
    exit      \* the exit status once main has ended, -1 before

vars == <<gen, goos, flags, is6g, runRE, pc, i, k, nfiles, stdout, logs, fs, hist,
          faults, input, exit>>

(***************************************************************************)
(* ProfileExtractor: the scan of the memory profile in runBuild.           *)
(***************************************************************************)
\* scanLine with a value that is no integer ending the scan empty-handed
\* instead of being skipped
scanLine_reset(c, line) ==
    LET f == Fields(line)
    IN  IF Len(f) < 4 \/ f[1] # HASH \/ f[3] # EQUALS THEN c
        ELSE LET p == ParseInt(f[4])
             IN  IF ~p.ok THEN [bytes |-> 0, allocs |-> 0]
                 ELSE IF f[2] = TotalAlloc THEN [c EXCEPT !.bytes = p.val]
                 ELSE IF f[2] = Mallocs THEN [c EXCEPT !.allocs = p.val]
                 ELSE c

\* one iteration of the loop over the lines of the profile
scanLine(c, line) ==
    LET f == Fields(line)
    IN  IF Len(f) < 4 \/ f[1] # HASH \/ f[3] # EQUALS THEN c
        ELSE LET p == ParseInt(f[4])
             IN  IF ~p.ok THEN c
                 ELSE IF f[2] = TotalAlloc THEN [c EXCEPT !.bytes = p.val]
                 ELSE IF f[2] = Mallocs THEN [c EXCEPT !.allocs = p.val]
                 ELSE c

RECURSIVE scanLines(_, _)
scanLines(c, lines) ==
    IF lines = <<>> THEN c ELSE scanLines(scanLine(c, Head(lines)), Tail(lines))

\* var allocs, bytes int64, then the loop over strings.Split(string(out), "\n")
parseProfile(out) == scanLines([bytes |-> 0, allocs |-> 0], Split(out))

(***************************************************************************)
(* The benchmark executions.  Each returns what it writes to standard      *)
(* output (out) and to the log (log), the artifacts the external build     *)
(* left in the build directory (made) and those removed afterwards         *)
(* (removed), how the build invocation went (build: "ok", "fail",          *)
(* "unresolved" when build.Import failed, "none"), whether log.Fatal ended *)
(* the process (fatal), the flag values it leaves (flags), the text it     *)
(* parsed (read) and the counters it extracted (counters).                 *)
(***************************************************************************)
NoCounters == [bytes |-> 0, allocs |-> 0]

Returned(fl) ==
    [out |-> <<>>, log |-> <<>>, made |-> {}, removed |-> {}, build |-> "ok",
     fatal |-> FALSE, flags |-> fl, read |-> <<>>, counters |-> NoCounters]

\* runCmd without the return after the logged failure
runCmd_noreturn(name, ok, fl) ==
    [Returned(fl) EXCEPT
        !.log = IF ok THEN <<>> ELSE <<"runCmd: command failed">>,
        !.build = IF ok THEN "ok" ELSE "fail",
        !.out = << <<name, " ", "1", " ">> \o FormatInt(WallNs) \o <<" ", "ns/op", "\n">> >>]

\* runCmd of src/main.go; ok: the command exited with status 0
runCmd(name, ok, fl) ==
    IF ~ok
    THEN [Returned(fl) EXCEPT !.log = <<"runCmd: command failed">>, !.build = "fail"]
    ELSE [Returned(fl) EXCEPT
            !.out = << <<name, " ", "1", " ">> \o FormatInt(WallNs)
                       \o <<" ", "ns/op", "\n">> >>]

\* runStdCmd: go build -a std cmd, through runCmd
runStdCmd(ok, fl) == runCmd("BenchmarkStdCmd", ok, fl)

\* SizeParser: the lines of runSize from strings.Split on; out is the
\* output of size(1), size the os.Stat size of the executable
sizeReport(name, out, size) ==
    LET lines == Split(out)
    IN  IF Len(lines) < 2
        THEN [out |-> <<>>, log |-> <<"not enough output from size">>]
        ELSE LET f == Fields(lines[2])
             IN  IF HasPrefix(lines[1], TEXT_PREFIX) /\ Len(f) >= 2
                 THEN [out |-> << <<name, " ", "1", " ">> \o f[1] \o <<" ", "text-bytes", " ">>
                                  \o f[2] \o <<" ", "data-bytes", " ">>
                                  \o FormatInt(size) \o <<" ", "exe-bytes", "\n">> >>,
                       log |-> <<>>]
                 ELSE IF Contains(lines[1], BSS) /\ Len(f) >= 3
                 THEN [out |-> << <<name, " ", "1", " ">> \o f[1] \o <<" ", "text-bytes", " ">>
                                  \o f[2] \o <<" ", "data-bytes", " ">>
                                  \o f[3] \o <<" ", "bss-bytes", " ">>
                                  \o FormatInt(size) \o <<" ", "exe-bytes", "\n">> >>,
                       log |-> <<>>]
                 ELSE [out |-> <<>>, log |-> <<>>]

\* runSize.  e.build: go build exited 0 (e.made: what a failed build left);
\* e.stat: os.Stat found the executable; e.size: size(1) exited 0;
\* e.text: what size(1) printed
runSize(name, e, fl) ==
    IF ~e.build
    THEN [Returned(fl) EXCEPT !.log = <<"runSize: build failed">>, !.made = e.made,
                              !.build = "fail"]
    ELSE IF ~e.stat
    THEN [Returned(fl) EXCEPT !.log = <<"runSize: stat failed">>, !.removed = {SIZEOUT}]
    ELSE IF ~e.size
    THEN [Returned(fl) EXCEPT !.log = <<"size: failed">>, !.made = {SIZEOUT},
                              !.removed = {SIZEOUT}]
    ELSE LET r == sizeReport(name, e.text, ExeBytes)
         IN  [Returned(fl) EXCEPT !.out = r.out, !.log = r.log, !.made = {SIZEOUT},
                                  !.removed = {SIZEOUT}, !.read = e.text]

\* the is6g block of runBuild
reset6g(fl, six) ==
    IF six THEN [fl EXCEPT !.alloc = FALSE, !.cpuprofile = "", !.memprofile = ""] ELSE fl

\* the outputs the compiler is asked to write: -o, -memprofile, -cpuprofile
requested(fl) ==
    {OBJ} \cup (IF fl.alloc \/ fl.memprofile # "" THEN {MEMPROF} ELSE {})
          \cup (IF fl.cpuprofile # "" THEN {CPUPROF} ELSE {})

\* runBuild of src/main.go past the switch on name: the compile path.
\* e.import: build.Import resolved the package; e.build: the compiler
\* exited 0 (e.made: what a failed compilation left); e.prof: the memory
\* profile it wrote, or NoFile; e.wmem, e.wcpu: the copies to -memprofile
\* and -cpuprofile could be written; e.rcpu: the CPU profile could be read
compile(name, dir, file, e, fl0, six) ==
    IF file = "" /\ dir # "" /\ ~e.import
    THEN [Returned(fl0) EXCEPT !.log = <<"build.Import failed">>, !.build = "unresolved"]
    ELSE IF file = "" /\ dir = ""
    THEN [Returned(fl0) EXCEPT !.log = <<"internal error: dir or file must be set">>,
                               !.build = "none", !.fatal = TRUE]
    ELSE
    LET fl == reset6g(fl0, six)
        wantMem == fl.alloc \/ fl.memprofile # ""
        wantCpu == fl.cpuprofile # ""
    IN  IF ~e.build
        THEN [Returned(fl) EXCEPT !.log = <<"compile failed">>, !.made = e.made,
                                  !.build = "fail"]
        ELSE
        LET out == IF e.prof = NoFile THEN <<>> ELSE e.prof
            c == IF wantMem THEN parseProfile(out) ELSE NoCounters
            log1 == IF wantMem /\ e.prof = NoFile
                    THEN <<"cannot find memory profile after compilation">> ELSE <<>>
            log2 == IF wantMem /\ fl.memprofile # "" /\ ~e.wmem
                    THEN <<"write memprofile failed">> ELSE <<>>
            log3 == IF wantCpu /\ ~e.rcpu THEN <<"read cpuprofile failed">> ELSE <<>>
            log4 == IF wantCpu /\ ~e.wcpu THEN <<"write cpuprofile failed">> ELSE <<>>
            made == {OBJ} \cup (IF wantMem /\ e.prof # NoFile THEN {MEMPROF} ELSE {})
                          \cup (IF wantCpu /\ e.rcpu THEN {CPUPROF} ELSE {})
            line == IF fl.alloc
                    THEN <<name, " ", "1", " ">> \o FormatInt(WallNs) \o <<" ", "ns/op", " ">>
                         \o FormatInt(UserNs) \o <<" ", "user-ns/op", " ">>
                         \o FormatInt(c.bytes) \o <<" ", "B/op", " ">>
                         \o FormatInt(c.allocs) \o <<" ", "allocs/op", "\n">>
                    ELSE <<name, " ", "1", " ">> \o FormatInt(WallNs) \o <<" ", "ns/op", " ">>
                         \o FormatInt(UserNs) \o <<" ", "user-ns/op", "\n">>
        IN  [Returned(fl) EXCEPT !.out = <<line>>, !.log = log1 \o log2 \o log3 \o log4,
                                 !.made = made, !.removed = requested(fl),
                                 !.read = IF wantMem THEN e.prof ELSE <<>>,
                                 !.counters = c]

\* runBuild of src/main.go: the switch on name, then the compile path
runBuild(name, dir, file, e, fl, six) ==
    CASE name = "BenchmarkStdCmd" -> runStdCmd(e.build, fl)
      [] name = "BenchmarkCmdGoSize" -> runSize("BenchmarkCmdGoSize", e, fl)
      [] name = "BenchmarkHelloSize" -> runSize("BenchmarkHelloSize", e, fl)
      [] OTHER -> compile(name, dir, file, e, fl, six)

\* runBuild of the older generation: every failure is a log.Fatal, which
\* ends the process with the artifacts written so far left behind.
\* e.build2: the second, profiling compilation exited 0
runBuildOld(name, dir, e, fl) ==
    LET wantCpu == fl.cpuprofile # ""
        c == parseProfile(e.prof)
        line == <<"Benchmark", name, " ", "1", " ">> \o FormatInt(WallNs)
                \o <<" ", "ns/op", " ">> \o FormatInt(c.bytes) \o <<" ", "B/op", " ">>
                \o FormatInt(c.allocs) \o <<" ", "allocs/op", "\n">>
        built == {OBJ, MEMPROF} \cup (IF wantCpu /\ e.rcpu THEN {CPUPROF} ELSE {})
        Died(log, made) == [Returned(fl) EXCEPT !.log = <<log>>, !.made = made,
                                                !.fatal = TRUE]
        Printed(r) == [r EXCEPT !.out = <<line>>, !.read = e.prof, !.counters = c]
    IN  IF ~e.import
        THEN [Died("build.Import failed", {}) EXCEPT !.build = "unresolved"]
        ELSE IF ~e.build
        THEN [Died("compile failed", e.made) EXCEPT !.build = "fail"]
        ELSE IF ~e.build2
        THEN [Died("compile failed", {OBJ} \cup e.made) EXCEPT !.build = "fail"]
        ELSE IF e.prof = NoFile
        THEN [Died("cannot find memory profile after compilation", built \ {MEMPROF})
                EXCEPT !.read = NoFile]
        ELSE IF fl.memprofile # "" /\ ~e.wmem
        THEN Printed(Died("write memprofile failed", built))
        ELSE IF wantCpu /\ ~e.rcpu
        THEN Printed(Died("read cpuprofile failed", built))
        ELSE IF wantCpu /\ ~e.wcpu
        THEN Printed(Died("write cpuprofile failed", built))
        ELSE Printed([Returned(fl) EXCEPT
                        !.made = built,
                        !.removed = {OBJ, MEMPROF} \cup (IF wantCpu THEN {CPUPROF} ELSE {})])

(***************************************************************************)
(* What the environment does in one benchmark execution.  Every field is   *)
(* TRUE, or the nominal text, when nothing fails.                          *)
(***************************************************************************)
Nominal(os) ==
    [import |-> TRUE, build |-> TRUE, build2 |-> TRUE, made |-> {}, stat |-> TRUE,
     size |-> TRUE, text |-> SizeNominal(os), prof |-> GoodProfile, wmem |-> TRUE,
     rcpu |-> TRUE, wcpu |-> TRUE]

\* the number of external failures in e
Faults(e, os) ==
    Cardinality({f \in {"import", "build", "build2", "stat", "size", "wmem", "rcpu", "wcpu"} :
                   ~e[f]})
    + (IF e.text # SizeNominal(os) THEN 1 ELSE 0)
    + (IF e.prof # GoodProfile THEN 1 ELSE 0)

StdCmdEnvs(os) == {Nominal(os), [Nominal(os) EXCEPT !.build = FALSE]}

SizeEnvs(os) ==
    {[Nominal(os) EXCEPT !.build = FALSE, !.made = m] : m \in SUBSET {SIZEOUT}}
    \cup {[Nominal(os) EXCEPT !.stat = FALSE], [Nominal(os) EXCEPT !.size = FALSE]}
    \cup {[Nominal(os) EXCEPT !.text = t] : t \in SizeInputs(os)}

CompileEnvs(os, file, fl) ==
    (IF file = "" THEN {[Nominal(os) EXCEPT !.import = FALSE]} ELSE {})
    \cup {[Nominal(os) EXCEPT !.build = FALSE, !.made = m] : m \in SUBSET requested(fl)}
    \cup {[Nominal(os) EXCEPT !.prof = p, !.wmem = a, !.rcpu = b, !.wcpu = c] :
            p \in (IF fl.alloc \/ fl.memprofile # "" THEN ProfileInputs ELSE {GoodProfile}),
            a \in (IF fl.memprofile # "" THEN BOOLEAN ELSE {TRUE}),
            b \in (IF fl.cpuprofile # "" THEN BOOLEAN ELSE {TRUE}),
            c \in (IF fl.cpuprofile # "" THEN BOOLEAN ELSE {TRUE})}

OldEnvs(os, fl) ==
    {[Nominal(os) EXCEPT !.import = FALSE]}
    \cup {[Nominal(os) EXCEPT !.build = FALSE, !.made = m] : m \in SUBSET {OBJ}}
    \cup {[Nominal(os) EXCEPT !.build2 = FALSE, !.made = m] :
            m \in SUBSET (requested(fl) \cup {MEMPROF})}
    \cup {[Nominal(os) EXCEPT !.prof = p, !.wmem = a, !.rcpu = b, !.wcpu = c] :
            p \in ProfileInputs,
            a \in (IF fl.memprofile # "" THEN BOOLEAN ELSE {TRUE}),
            b \in (IF fl.cpuprofile # "" THEN BOOLEAN ELSE {TRUE}),
            c \in (IF fl.cpuprofile # "" THEN BOOLEAN ELSE {TRUE})}

(***************************************************************************)
(* The inputs of the extractor's and the size parser's own specifications. *)
(***************************************************************************)
ProfileLines ==
    { <<"#", " ", "T", "o", "t", "a", "l", "A", "l", "l", "o", "c", " ", "=", " ", "8", "1", "9", "2">>, <<"#", " ", "T", "o", "t", "a", "l", "A", "l", "l", "o", "c", " ", "=", " ", "0", "x", "2", "0">>, <<"#", " ", "M", "a", "l", "l", "o", "c", "s", " ", "=", " ", "3", "7">>,
      <<"#", "\t", "M", "a", "l", "l", "o", "c", "s", " ", " ", "=", " ", " ", "0">>, <<"#", " ", "T", "o", "t", "a", "l", "A", "l", "l", "o", "c", " ", "=", " ", "8", "k">>, <<"#", " ", "F", "r", "e", "e", "s", " ", "=", " ", "5">>,
      <<"#", " ", "M", "a", "l", "l", "o", "c", "s", " ", "3", "7">>, <<"m", "a", "i", "n", ".", "f", " ", "0", "x", "1", "0", " ", "=", " ", "3">>, <<>> }

RECURSIVE JoinLines(_)
JoinLines(ls) == IF ls = <<>> THEN <<>> ELSE Head(ls) \o <<"\n">> \o JoinLines(Tail(ls))

\* the profile dumps: up to MaxProfLines lines, each ended by a newline
ProfileDumps ==
    UNION {{JoinLines(ls) : ls \in [1..n -> ProfileLines]} : n \in 0..MaxProfLines}

SizeHeaders == { <<"_", "_", "T", "E", "X", "T", "\t", "_", "_", "D", "A", "T", "A">>, <<"t", "e", "x", "t", " ", "d", "a", "t", "a", " ", "b", "s", "s", " ", "d", "e", "c">>, <<"_", "_", "T", "E", "X", "T", " ", "b", "s", "s">>,
                 <<"s", "e", "c", "t", "i", "o", "n", " ", "s", "i", "z", "e">>, <<" ", " ", "_", "_", "T", "E", "X", "T">>, <<>> }
SizeData == { <<"4", "0", "9", "6", " ", "5", "1", "2", " ", "6", "4", " ", "4", "6", "7", "2">>, <<"4", "0", "9", "6", "\t", "5", "1", "2">>, <<"4", "0", "9", "6">>, <<"_", "o", "u", "t", "_", " ", ":">>, <<>> }
ExeSizes == {ExeBytes, 2000000}

\* header, newline, data line, newline; and the outputs of a single line
SizeOutputs ==
    {h \o <<"\n">> \o d \o <<"\n">> : h \in SizeHeaders, d \in SizeData}
    \cup {h \o <<"\n">> \o d : h \in SizeHeaders, d \in SizeData}
    \cup SizeHeaders

NoInput == [text |-> <<>>, size |-> 0]

(***************************************************************************)
(* The state machine.                                                      *)
(***************************************************************************)
Init ==
    /\ gen \in {"main", "old"}
    /\ goos \in (IF gen = "main" THEN {"darwin", "linux"} ELSE {"linux"})
    /\ flags \in (IF gen = "main" THEN CommandLines ELSE CommandLinesOld)
    /\ is6g = FALSE
    /\ runRE = "nil"
    /\ pc = "start"
    /\ i = 0
    /\ k = 1
    /\ nfiles = 0
    /\ stdout = <<>>
    /\ logs = <<>>
    /\ fs = {}
    /\ hist = <<>>
    /\ faults = 0
    /\ input = NoInput
    /\ exit = -1

\* log.Fatal: the message is logged and the process exits with status 1
Fatal(msg) ==
    /\ logs' = Append(logs, msg)
    /\ pc' = "fatal"
    /\ exit' = 1

\* the end of main's loop over tests: on to the torture tests, or return
AfterLoop(fl) == IF fl.torture THEN "torture" ELSE "done"

\* main of src/main.go up to the loop: locate the compiler, compile -run
Setup ==
    /\ gen = "main" /\ pc = "start"
    /\ \E probe \in {"compile", "6g", "none"} :
        LET cost == IF probe = "compile" THEN 0 ELSE IF probe = "6g" THEN 1 ELSE 2
        IN  /\ faults + cost <= MaxFaults
            /\ faults' = faults + cost
            /\ is6g' = (probe # "compile")
            /\ IF probe = "none"
               THEN Fatal("go tool -n compiler") /\ UNCHANGED runRE
               ELSE IF flags.run # "" /\ ~Compiles(flags.run)
               THEN Fatal("invalid -run argument") /\ UNCHANGED runRE
               ELSE /\ runRE' = (IF flags.run = "" THEN "nil" ELSE flags.run)
                    /\ pc' = (IF 0 < flags.count THEN "loop" ELSE AfterLoop(flags))
                    /\ exit' = (IF 0 < flags.count \/ flags.torture THEN exit ELSE 0)
                    /\ UNCHANGED logs
    /\ UNCHANGED <<gen, goos, flags, i, k, nfiles, stdout, fs, hist, input>>

\* main of the older generation up to the loop
SetupOld ==
    /\ gen = "old" /\ pc = "start"
    /\ \E found \in BOOLEAN :
        /\ faults + (IF found THEN 0 ELSE 1) <= MaxFaults
        /\ faults' = faults + (IF found THEN 0 ELSE 1)
        /\ IF ~found
           THEN Fatal("go tool -n compiler") /\ UNCHANGED runRE
           ELSE IF flags.run # "" /\ ~Compiles(flags.run)
           THEN Fatal("invalid -run argument") /\ UNCHANGED runRE
           ELSE /\ runRE' = (IF flags.run = "" THEN "nil" ELSE flags.run)
                /\ pc' = (IF 0 < flags.count THEN "loop" ELSE "done")
                /\ exit' = (IF 0 < flags.count THEN exit ELSE 0)
                /\ UNCHANGED logs
    /\ UNCHANGED <<gen, goos, flags, is6g, i, k, nfiles, stdout, fs, hist, input>>

\* shouldRun without the test of tt.long under -short
shouldRun_nolong(tt, fl, re) == re = "nil" \/ MatchString(re, tt.name)

\* the condition under which main's loop calls runBuild for tt
shouldRun(tt, fl, re) ==
    IF tt.long /\ fl.short THEN FALSE
    ELSE re = "nil" \/ MatchString(re, tt.name)

\* the same in the older generation
shouldRunOld(tt, re) == re = "nil" \/ MatchString(re, tt.name)

\* the step of the two nested loops: the next definition, the next pass,
\* or the end of the loop
Advance(n, after) ==
    IF k < n THEN /\ k' = k + 1
                  /\ UNCHANGED <<i, pc, exit>>
    ELSE /\ k' = 1
         /\ i' = i + 1
         /\ pc' = (IF i + 1 < flags.count THEN "loop" ELSE after)
         /\ exit' = (IF i + 1 < flags.count \/ after # "done" THEN exit ELSE 0)

\* what hist records of one visit
Entry(name, loop, path, r, fl) ==
    [name |-> name, pass |-> i, loop |-> loop, path |-> path,
     status |-> IF path = "skip" THEN "Skipped"
                ELSE IF r.out # <<>> THEN "Succeeded" ELSE "Failed",
     build |-> IF path = "skip" THEN "none" ELSE r.build,
     recs |-> Len(r.out), nlogs |-> Len(r.log), fatal |-> r.fatal,
     read |-> r.read, counters |-> r.counters, alloc |-> fl.alloc,
     before |-> Len(stdout)]

\* the effects of an execution of name in directory dir
Apply(name, loop, path, dir, r) ==
    /\ stdout' = stdout \o r.out
    /\ logs' = logs \o r.log
    /\ fs' = (fs \cup {<<dir, a>> : a \in r.made}) \ {<<dir, a>> : a \in r.removed}
    /\ flags' = r.flags
    /\ hist' = Append(hist, Entry(name, loop, path, r, r.flags))

\* a definition the loop passes over
Skip ==
    /\ gen = "main" /\ pc = "loop"
    /\ ~shouldRun(tests[k], flags, runRE)
    /\ hist' = Append(hist, Entry(tests[k].name, "tests", "skip", Returned(flags), flags))
    /\ Advance(Len(tests), AfterLoop(flags))
    /\ UNCHANGED <<gen, goos, flags, is6g, runRE, nfiles, stdout, logs, fs, faults, input>>

\* runBuild for one definition of tests, by the path it takes
Run(path, names, envs) ==
    /\ gen = "main" /\ pc = "loop"
    /\ shouldRun(tests[k], flags, runRE)
    /\ tests[k].name \in names
    /\ \E e \in envs :
        /\ faults + Faults(e, goos) <= MaxFaults
        /\ faults' = faults + Faults(e, goos)
        /\ LET r == runBuild(tests[k].name, tests[k].dir, "", e, flags, is6g)
           IN  /\ Apply(tests[k].name, "tests", path,
                        IF path = "compile" THEN tests[k].dir ELSE ".", r)
               /\ IF r.fatal THEN /\ pc' = "fatal"
                                  /\ exit' = 1
                                  /\ UNCHANGED <<i, k>>
                  ELSE Advance(Len(tests), AfterLoop(flags))
    /\ UNCHANGED <<gen, goos, is6g, runRE, nfiles, input>>

RunStdCmd == Run("stdcmd", {"BenchmarkStdCmd"}, StdCmdEnvs(goos))

RunSize == Run("size", {"BenchmarkHelloSize", "BenchmarkCmdGoSize"}, SizeEnvs(goos))

RunCompile ==
    Run("compile",
        {tests[t].name : t \in 1..Len(tests)}
            \ {"BenchmarkStdCmd", "BenchmarkHelloSize", "BenchmarkCmdGoSize"},
        CompileEnvs(goos, "", reset6g(flags, is6g)))

\* the torture tests: filepath.Glob over testdata
TortureGlob ==
    /\ gen = "main" /\ pc = "torture"
    /\ \E n \in 0..MaxTorture :
        /\ faults + (IF n = 0 THEN 1 ELSE 0) <= MaxFaults
        /\ faults' = faults + (IF n = 0 THEN 1 ELSE 0)
        /\ nfiles' = n
        /\ IF n = 0 THEN Fatal("could not find torture tests")
           ELSE /\ pc' = "files"
                /\ UNCHANGED <<logs, exit>>
    /\ k' = 1
    /\ UNCHANGED <<gen, goos, flags, is6g, runRE, i, stdout, fs, hist, input>>

\* the step of the loop over the torture files
NextFile ==
    IF k < nfiles THEN /\ k' = k + 1
                       /\ UNCHANGED <<pc, exit>>
    ELSE /\ k' = 1
         /\ pc' = "done"
         /\ exit' = 0

\* a torture file that cannot be opened, decompressed or staged
TortureStageFail ==
    /\ gen = "main" /\ pc = "files"
    /\ faults < MaxFaults
    /\ faults' = faults + 1
    /\ Fatal("staging failed")
    /\ UNCHANGED <<gen, goos, flags, is6g, runRE, i, k, nfiles, stdout, fs, hist, input>>

\* a torture file the -run pattern does not match
TortureSkip ==
    /\ gen = "main" /\ pc = "files"
    /\ ~(runRE = "nil" \/ MatchString(runRE, TortureName(k)))
    /\ hist' = Append(hist, Entry(TortureName(k), "torture", "skip", Returned(flags), flags))
    /\ NextFile
    /\ UNCHANGED <<gen, goos, flags, is6g, runRE, i, nfiles, stdout, logs, fs, faults, input>>

\* runBuild(name, testdata, tmp.Name()) for a torture file
TortureRun ==
    /\ gen = "main" /\ pc = "files"
    /\ runRE = "nil" \/ MatchString(runRE, TortureName(k))
    /\ \E e \in CompileEnvs(goos, "tmp", reset6g(flags, is6g)) :
        /\ faults + Faults(e, goos) <= MaxFaults
        /\ faults' = faults + Faults(e, goos)
        /\ LET r == runBuild(TortureName(k), testdata, "tmp", e, flags, is6g)
           IN  /\ Apply(TortureName(k), "torture", "compile", testdata, r)
               /\ NextFile
    /\ UNCHANGED <<gen, goos, is6g, runRE, i, nfiles, input>>

\* a definition the loop of the older generation passes over
SkipOld ==
    /\ gen = "old" /\ pc = "loop"
    /\ ~shouldRunOld(testsOld[k], runRE)
    /\ hist' = Append(hist, Entry(testsOld[k].name, "tests", "skip", Returned(flags), flags))
    /\ Advance(Len(testsOld), "done")
    /\ UNCHANGED <<gen, goos, flags, is6g, runRE, nfiles, stdout, logs, fs, faults, input>>

\* runBuild of the older generation for one definition
RunOld ==
    /\ gen = "old" /\ pc = "loop"
    /\ shouldRunOld(testsOld[k], runRE)
    /\ \E e \in OldEnvs(goos, flags) :
        /\ faults + Faults(e, goos) <= MaxFaults
        /\ faults' = faults + Faults(e, goos)
        /\ LET r == runBuildOld(testsOld[k].name, testsOld[k].dir, e, flags)
           IN  /\ Apply(testsOld[k].name, "tests", "compile", testsOld[k].dir, r)
               /\ IF r.fatal THEN /\ pc' = "fatal"
                                  /\ exit' = 1
                                  /\ UNCHANGED <<i, k>>
                  ELSE Advance(Len(testsOld), "done")
    /\ UNCHANGED <<gen, goos, is6g, runRE, nfiles, input>>

Next ==
    \/ Setup \/ Skip \/ RunStdCmd \/ RunSize \/ RunCompile
    \/ TortureGlob \/ TortureStageFail \/ TortureSkip \/ TortureRun
    \/ SetupOld \/ SkipOld \/ RunOld

Spec == Init /\ [][Next]_vars

(***************************************************************************)
(* ProfileExtractor on its own: one profile dump, parsed once.             *)
(***************************************************************************)
InitProfile ==
    /\ gen = "profile" /\ goos = "linux" /\ flags = DefaultFlags /\ is6g = FALSE
    /\ runRE = "nil" /\ pc = "start" /\ i = 0 /\ k = 1 /\ nfiles = 0 /\ stdout = <<>>
    /\ logs = <<>> /\ fs = {} /\ hist = <<>> /\ faults = 0 /\ exit = -1
    /\ input \in {[text |-> d, size |-> 0] : d \in ProfileDumps}

ExtractProfile ==
    /\ gen = "profile" /\ pc = "start"
    /\ pc' = "done"
    /\ hist' = <<[Entry("BenchmarkTemplate", "tests", "compile", Returned(flags), flags)
                  EXCEPT !.read = input.text, !.counters = parseProfile(input.text)]>>
    /\ UNCHANGED <<gen, goos, flags, is6g, runRE, i, k, nfiles, stdout, logs, fs, faults,
                   input, exit>>

SpecProfile == InitProfile /\ [][ExtractProfile]_vars

(***************************************************************************)
(* SizeParser on its own: one output of size(1), parsed once.              *)
(***************************************************************************)
InitSize ==
    /\ gen = "size" /\ goos = "linux" /\ flags = DefaultFlags /\ is6g = FALSE
    /\ runRE = "nil" /\ pc = "start" /\ i = 0 /\ k = 1 /\ nfiles = 0 /\ stdout = <<>>
    /\ logs = <<>> /\ fs = {} /\ hist = <<>> /\ faults = 0 /\ exit = -1
    /\ input \in {[text |-> t, size |-> s] : t \in SizeOutputs, s \in ExeSizes}

ReportSize ==
    /\ gen = "size" /\ pc = "start"
    /\ pc' = "done"
    /\ LET r == sizeReport("BenchmarkHelloSize", input.text, input.size)
       IN  /\ stdout' = stdout \o r.out
           /\ logs' = logs \o r.log
    /\ UNCHANGED <<gen, goos, flags, is6g, runRE, i, k, nfiles, fs, hist, faults, input, exit>>

SpecSize == InitSize /\ [][ReportSize]_vars

(***************************************************************************)
(* Vocabulary of the properties.                                           *)
(***************************************************************************)
\* the number of lines the j-th visit wrote to standard output
Written(j) == (IF j < Len(hist) THEN hist[j + 1].before ELSE Len(stdout)) - hist[j].before

Visits == 1..Len(hist)
Executions == {j \in Visits : hist[j].status # "Skipped"}

Digits == {"0", "1", "2", "3", "4", "5", "6", "7", "8", "9"}
IsDigits(tok) == tok # <<>> /\ \A x \in 1..Len(tok) : tok[x] \in Digits
IsNumber(tok) == IsDigits(tok) \/ (Len(tok) > 1 /\ tok[1] = "-" /\ IsDigits(Tail(tok)))

Units == {"ns/op", "user-ns/op", "B/op", "allocs/op", "text-bytes", "data-bytes",
          "bss-bytes", "exe-bytes"}

\* <name> 1 (<value> <unit>)+ and a newline
WellFormed(line) ==
    /\ line # <<>> /\ line[Len(line)] = "\n"
    /\ LET f == Fields(line)
       IN  /\ Len(f) >= 4 /\ Len(f) % 2 = 0
           /\ f[2] = <<"1">>
           /\ \A x \in 2..(Len(f) \div 2) :
                IsNumber(f[2 * x - 1]) /\ f[2 * x] \in {<<u>> : u \in Units}

\* the two shapes of size output the spec names
ShapeA(text) ==
    LET ls == Split(text)
    IN  Len(ls) >= 2 /\ HasPrefix(ls[1], TEXT_PREFIX) /\ Len(Fields(ls[2])) >= 2
ShapeB(text) ==
    LET ls == Split(text)
    IN  Len(ls) >= 2 /\ Contains(ls[1], BSS) /\ Len(Fields(ls[2])) >= 3

\* the line "# <name> = <n>" of a memory profile
CounterLine(name, n) == <<"#", " ">> \o name \o <<" ", "=", " ">> \o FormatInt(n)

\* text holds a counter line for name whose value is an integer
Recovered(text, name) ==
    /\ text # NoFile
    /\ \E x \in 1..Len(Split(text)) :
         LET f == Fields(Split(text)[x])
         IN  Len(f) >= 4 /\ f[1] = HASH /\ f[2] = name /\ f[3] = EQUALS /\ ParseInt(f[4]).ok

\* the definition of tests, or of testsOld, with the given name
Long(name) == \E t \in 1..Len(tests) : tests[t].name = name /\ tests[t].long
Table == IF gen = "old" THEN testsOld ELSE tests
Selected(name) ==
    /\ ~(gen = "main" /\ Long(name) /\ flags.short)
    /\ flags.run = "" \/ MatchString(flags.run, name)

(***************************************************************************)
(* C1, as claimed.  In src/main.go an execution whose build invocation     *)
(* sequence succeeds writes exactly one record line to standard output,    *)
(* and one whose build invocation fails writes none.                       *)
(***************************************************************************)
C1_Original ==
    gen = "main" =>
        \A j \in Executions :
            /\ hist[j].build = "ok" => Written(j) = 1
            /\ hist[j].build = "fail" => Written(j) = 0

\* C1 as amended: in src/main.go every execution writes at most one record
\* line, and none when its build invocation fails or its build unit is not
\* resolved; when the build invocation succeeds, the compile path and the
\* std/cmd path write exactly one, and the size path writes one exactly
\* when os.Stat and size(1) also succeed and the size output has one of the
\* two recognised shapes.
C1_Amended ==
    gen = "main" =>
        \A j \in Executions :
            /\ Written(j) <= 1
            /\ hist[j].build \in {"fail", "unresolved"} => Written(j) = 0
            /\ (hist[j].build = "ok" /\ hist[j].path \in {"compile", "stdcmd"})
                  => Written(j) = 1
            /\ (hist[j].build = "ok" /\ hist[j].path = "size")
                  => (Written(j) = 1 <=>
                        /\ hist[j].read # <<>>
                        /\ ShapeA(hist[j].read) \/ ShapeB(hist[j].read))

\* a size execution whose build succeeded and that wrote nothing, an
\* execution whose build failed, and one that wrote its record
C1_Witness ==
    /\ gen = "main"
    /\ \E j \in Executions : hist[j].path = "size" /\ hist[j].build = "ok" /\ Written(j) = 0
    /\ \E j \in Executions : hist[j].build = "fail" /\ Written(j) = 0
    /\ \E j \in Executions : hist[j].build = "ok" /\ Written(j) = 1

(***************************************************************************)
(* C2.  A build invocation that exits non-zero is logged, contributes no   *)
(* record and does not abort the run.                                      *)
(***************************************************************************)
C2_Claim ==
    \A j \in Executions :
        hist[j].build = "fail" =>
            /\ hist[j].nlogs >= 1
            /\ Written(j) = 0
            /\ ~hist[j].fatal
            /\ pc # "fatal" \/ j < Len(hist)

(***************************************************************************)
(* C3.  A setup failure (the compiler is not located, a build unit is not  *)
(* resolved) aborts the run: nothing is executed after it.                 *)
(***************************************************************************)
C3_Claim ==
    /\ \A j \in Executions :
         hist[j].build = "unresolved" => (pc = "fatal" /\ j = Len(hist) /\ exit = 1)
    /\ (\E x \in 1..Len(logs) : logs[x] = "go tool -n compiler")
         => (pc = "fatal" /\ hist = <<>> /\ stdout = <<>>)

(***************************************************************************)
(* C4.  Every line on standard output is a well-formed benchmark record.   *)
(***************************************************************************)
C4_Claim == \A x \in 1..Len(stdout) : WellFormed(stdout[x])

(***************************************************************************)
(* C5.  SizeParser: shape A reports text and data bytes and the executable *)
(* size, shape B reports text, data and bss bytes and the executable size, *)
(* anything else reports nothing and logs a warning.                       *)
(***************************************************************************)
C5_Claim ==
    pc = "done" =>
        LET ls == Split(input.text)
            f == Fields(ls[2])
            rec == Fields(stdout[1])
            exe == FormatInt(input.size)
        IN  /\ ShapeA(input.text) =>
                /\ Len(stdout) = 1
                /\ SubSeq(rec, 3, Len(rec)) =
                     <<f[1], <<"text-bytes">>, f[2], <<"data-bytes">>, exe, <<"exe-bytes">> >>
            /\ ShapeB(input.text) =>
                /\ Len(stdout) = 1
                /\ SubSeq(rec, 3, Len(rec)) =
                     <<f[1], <<"text-bytes">>, f[2], <<"data-bytes">>, f[3], <<"bss-bytes">>,
                       exe, <<"exe-bytes">> >>
            /\ (~ShapeA(input.text) /\ ~ShapeB(input.text)) =>
                /\ stdout = <<>>
                /\ logs # <<>>

(***************************************************************************)
(* C6.  With -count n every selected benchmark is executed n times, and    *)
(* every record line states the iteration count 1.                         *)
(***************************************************************************)
C6_Claim ==
    /\ \A x \in 1..Len(stdout) : Fields(stdout[x])[2] = <<"1">>
    /\ pc = "done" =>
         /\ \A t \in 1..Len(Table) :
              Selected(Table[t].name) =>
                Cardinality({j \in Executions : hist[j].name = Table[t].name}) = flags.count
         /\ \A t \in 1..nfiles :
              (flags.run = "" \/ MatchString(flags.run, TortureName(t))) =>
                Cardinality({j \in Executions : hist[j].name = TortureName(t)}) = flags.count

(***************************************************************************)
(* C7.  In each pass a definition of tests is executed if and only if it   *)
(* is not long-running under -short and the -run pattern, if any, matches  *)
(* its name; a definition passed over writes no record; the passes visit   *)
(* the definitions in order, none left out; and a run whose pattern        *)
(* matches no benchmark ends with nothing written and exit status 0 unless *)
(* its setup failed.                                                       *)
(***************************************************************************)
C7_Theorem ==
    LET n == Len(Table)
        T == {j \in Visits : hist[j].loop = "tests"}
    IN  /\ \A j \in T :
              /\ hist[j].name = Table[((j - 1) % n) + 1].name
              /\ hist[j].pass = (j - 1) \div n
              /\ (hist[j].status # "Skipped") <=>
                    /\ ~(gen = "main" /\ Long(hist[j].name) /\ flags.short)
                    /\ flags.run = "" \/ MatchString(flags.run, hist[j].name)
              /\ hist[j].status = "Skipped" => Written(j) = 0
        /\ pc = "loop" => Cardinality(T) = i * n + (k - 1)
        /\ pc \in {"torture", "files", "done"} => Cardinality(T) = flags.count * n
        /\ (/\ flags.run # ""
            /\ \A t \in 1..n : ~MatchString(flags.run, Table[t].name)
            /\ \A t \in 1..(MaxTorture + 1) : ~MatchString(flags.run, TortureName(t))) =>
              /\ stdout = <<>>
              /\ pc = "done" => exit = 0
              /\ pc = "fatal" => faults > 0 \/ ~Compiles(flags.run)

\* -run Go -short: BenchmarkGoTypes runs, BenchmarkCmdGoSize matches the
\* pattern and is passed over as long-running, BenchmarkTemplate is passed
\* over by the pattern
C7_Witness ==
    /\ pc = "done" /\ flags.short /\ flags.run = "Go"
    /\ \E j \in Visits : hist[j].name = "BenchmarkGoTypes" /\ Written(j) = 1
    /\ \E j \in Visits : hist[j].name = "BenchmarkCmdGoSize" /\ hist[j].status = "Skipped"
    /\ \E j \in Visits : hist[j].name = "BenchmarkTemplate" /\ hist[j].status = "Skipped"

(***************************************************************************)
(* C8.  A profile dump with a line "# TotalAlloc = <n>" and a line         *)
(* "# Mallocs = <m>" yields the counters (n, m), whatever other lines      *)
(* (no counters, unknown counters, counters whose value is no integer)     *)
(* surround them and in whatever order.                                    *)
(***************************************************************************)
TotalAllocLines == { <<CounterLine(TotalAlloc, 8192), 8192>>, << <<"#", " ", "T", "o", "t", "a", "l", "A", "l", "l", "o", "c", " ", "=", " ", "0", "x", "2", "0">>, 32>> }
MallocsLines == { <<CounterLine(Mallocs, 37), 37>>, << <<"#", "\t", "M", "a", "l", "l", "o", "c", "s", " ", " ", "=", " ", " ", "0">>, 0>> }
C8_Theorem ==
    pc = "done" =>
        LET ls == Split(input.text)
            \* some line of the dump is the counter line p, and every
            \* counter line of the dump in lines carries the value of p
            Holds(p, lines) ==
                /\ \E x \in 1..Len(ls) : ls[x] = p[1]
                /\ \A x \in 1..Len(ls) : \A r \in lines : ls[x] = r[1] => r[2] = p[2]
        IN  \A p \in TotalAllocLines, q \in MallocsLines :
              (Holds(p, TotalAllocLines) /\ Holds(q, MallocsLines))
                  => hist[1].counters = [bytes |-> p[2], allocs |-> q[2]]

\* the Mallocs line first, then an unparsable TotalAlloc line, then the
\* TotalAlloc line
C8_Witness ==
    /\ pc = "done"
    /\ input.text = JoinLines(<<CounterLine(Mallocs, 37), <<"#", " ", "T", "o", "t", "a", "l", "A", "l", "l", "o", "c", " ", "=", " ", "8", "k">>,
                                CounterLine(TotalAlloc, 8192)>>)
    /\ hist[1].counters = [bytes |-> 8192, allocs |-> 37]

(***************************************************************************)
(* C9.  In src/main.go, with -alloc and the build succeeded, the record is *)
(* emitted whatever the state of the profile, and a counter that was not   *)
(* recovered from the profile is flagged in the log.                       *)
(***************************************************************************)
C9_Claim ==
    \A j \in Executions :
        (gen = "main" /\ hist[j].path = "compile" /\ hist[j].build = "ok" /\ hist[j].alloc) =>
            /\ Written(j) = 1
            /\ ~hist[j].fatal
            /\ (~Recovered(hist[j].read, TotalAlloc) \/ ~Recovered(hist[j].read, Mallocs))
                  => hist[j].nlogs >= 1

(***************************************************************************)
(* C10.  Once a benchmark execution has returned, none of the side         *)
(* artifacts exists in any build directory.                                *)
(***************************************************************************)
C10_Claim == pc \in {"loop", "torture", "files", "done"} => fs = {}
====
